---- MODULE Spec2Model ----
(***************************************************************************)
(* The rule-based classification core of InsightHub:                       *)
(*   backend/app/utils/severity_classifier.py  SeverityClassifier.classify *)
(*   backend/app/utils/auto_tagger.py          AutoTagger.generate_tags    *)
(* as called by backend/app/main.py analyze_image (classify first, then    *)
(* generate_tags, on the same detection list).                             *)
(*                                                                         *)
(* Strings are real strings: reasons are built by concatenation, labels    *)
(* are lowercased character by character, tags are ordered by comparing    *)
(* characters.  Confidences are floats in [0,1] in the code; here they are *)
(* whole percents, so 0.75 is 75 and 0.85 is 85.                           *)
(***************************************************************************)
EXTENDS Integers, Sequences, FiniteSets, TLC

VARIABLES
    hashSeed,    \* the process's string-hash seed: fixes set iteration order
    detections,  \* the detection list handed to classify / generate_tags
    severity,    \* classify's first return value (valid once pc # "classify")
    reason,      \* classify's second return value
    tags,        \* generate_tags' return value (valid once pc = "done")
    pc,          \* ("detect" ->) "classify" -> "tag" -> "done"
    history,     \* earlier calls of this process: {[input, severity, reason, tags]}
    raw,         \* what the loaded YOLO models report for the image, pass by pass
    analyses_storage,  \* main.py: analysis_id -> stored Analysis Result
    requests,    \* the analyze requests in flight: position, id, upload, outcome
    images       \* the files under STORAGE_DIR and OUTPUT_DIR, by analysis_id

vars == <<hashSeed, detections, severity, reason, tags, pc, history,
          raw, analyses_storage, requests, images>>

\* The state of the HTTP layer.
serverVars == <<analyses_storage, requests, images>>

----------------------------------------------------------------------------
(* Bounds of the model *)

MaxLen == 3        \* longest list over the full label alphabet
MaxPPELen == 5     \* longest list of pairwise distinct PPE-scene labels
MaxSceneLen == 6   \* longest list of plain scene objects
MaxCalls == 3      \* calls of classify + generate_tags in one process
MaxBoxes == 1      \* boxes one model pass reports for an image
MaxRequests == 2   \* analyze requests the process receives

----------------------------------------------------------------------------
(* Strings: characters, code point order, lower() *)

\* The characters that occur in labels and tags, in ascending code point order
\* (space 32, '-' 45, 'A'..'Z' 65..90, '_' 95, 'a'..'z' 97..122).
Chars == " -ABCDEFGHIJKLMNOPQRSTUVWXYZ_abcdefghijklmnopqrstuvwxyz"

CharAt(s, i) == SubSeq(s, i, i)

CharSet == {CharAt(Chars, i) : i \in 1..Len(Chars)}

\* Position of a character in code point order.
CodeOrder == [c \in CharSet |-> CHOOSE i \in 1..Len(Chars) : CharAt(Chars, i) = c]

\* str.__lt__: compare code points left to right; a proper prefix is smaller.
RECURSIVE StrLessFrom(_, _, _)
StrLessFrom(a, b, i) ==
    IF i > Len(a) THEN i <= Len(b)
    ELSE IF i > Len(b) THEN FALSE
    ELSE IF CharAt(a, i) = CharAt(b, i) THEN StrLessFrom(a, b, i + 1)
    ELSE CodeOrder[CharAt(a, i)] < CodeOrder[CharAt(b, i)]

StrLess(a, b) == StrLessFrom(a, b, 1)

\* str.lower() on one character: 'A'..'Z' (positions 3..28) map to 'a'..'z'.
LowerChar(c) ==
    IF CodeOrder[c] >= 3 /\ CodeOrder[c] <= 28
    THEN CharAt(Chars, CodeOrder[c] + 27)
    ELSE c

RECURSIVE LowerFrom(_, _)
LowerFrom(s, i) ==
    IF i > Len(s) THEN "" ELSE LowerChar(CharAt(s, i)) \o LowerFrom(s, i + 1)

Lower(s) == LowerFrom(s, 1)

\* ', '.join(seq)
RECURSIVE Join(_)
Join(seq) ==
    IF Len(seq) = 0 THEN ""
    ELSE IF Len(seq) = 1 THEN seq[1]
    ELSE seq[1] \o ", " \o Join(Tail(seq))

\* Ascending (code point order) enumeration of a finite set of strings.
RECURSIVE Ascending(_)
Ascending(S) ==
    IF S = {} THEN <<>>
    ELSE LET m == CHOOSE x \in S : \A y \in S : x = y \/ StrLess(x, y)
         IN <<m>> \o Ascending(S \ {m})

RECURSIVE Rotate(_, _)
Rotate(seq, n) == IF n = 0 \/ Len(seq) < 2 THEN seq ELSE Rotate(Tail(seq) \o <<Head(seq)>>, n - 1)

\* Iterating a Python set of strings: the order is fixed by the strings' hashes,
\* which the process draws from its hash seed at start-up.  Which order comes
\* out is not specified; the seed selects one, the same for the whole process.
IterOrder(S) == Rotate(Ascending(S), hashSeed % (IF S = {} THEN 1 ELSE Cardinality(S)))

----------------------------------------------------------------------------
(* SeverityClassifier *)

HashSeeds == {0, 1}

\* Variant: smoke left out of the emergency keywords.
CRITICAL_KEYWORDS_fire_only == {"fire"}

CRITICAL_KEYWORDS == {"fire", "smoke"}

HIGH_PRIORITY == {"crack", "pothole"}

\* Variant: the helmet is not listed as safety equipment.
SAFETY_EQUIPMENT_without_helmet == {"vest", "mask", "gloves", "goggles", "safety_shoe"}

SAFETY_EQUIPMENT == {"helmet", "vest", "mask", "gloves", "goggles", "safety_shoe"}

\* labels = [d['label'].lower() for d in detections]
LabelList(dets) == [i \in DOMAIN dets |-> Lower(dets[i].label)]

\* confidences = [d['confidence'] for d in detections]
ConfidenceList(dets) == [i \in DOMAIN dets |-> dets[i].confidence]

\* x in labels
InList(x, labels) == \E i \in DOMAIN labels : labels[i] = x

\* S.intersection(labels): the members of S that occur in the list.
Intersection(S, labels) == {x \in S : InList(x, labels)}

\* Variant: only 'person' counts as a person-presence signal.
has_person_without_head(labels) == InList("person", labels)

\* has_person = 'person' in labels or 'head' in labels
has_person(labels) == InList("person", labels) \/ InList("head", labels)

\* has_helmet = 'helmet' in labels
has_helmet(labels) == InList("helmet", labels)

\* Variant: the helmet is left out of the PPE count.
ppe_detected_without_helmet(labels) == Intersection(SAFETY_EQUIPMENT \ {"helmet"}, labels)

\* ppe_detected = cls.SAFETY_EQUIPMENT.intersection(labels)
ppe_detected(labels) == Intersection(SAFETY_EQUIPMENT, labels)

\* Variant: c >= 0.75 instead of c > 0.75.
high_conf_count_inclusive(confidences) ==
    Cardinality({i \in DOMAIN confidences : confidences[i] >= 75})

\* high_conf_count = sum(1 for c in confidences if c > 0.75)
high_conf_count(confidences) ==
    Cardinality({i \in DOMAIN confidences : confidences[i] > 75})

\* Variant: the MEDIUM threshold is 3 items instead of 2.
PersonRule_partial_from_3(labels) ==
    LET ppe == Intersection(SAFETY_EQUIPMENT, labels) IN
    IF ~InList("helmet", labels)
    THEN <<"CRITICAL", "Safety violation: Person without helmet detected">>
    ELSE IF Cardinality(ppe) >= 4
    THEN <<"LOW", "Full PPE compliance: " \o Join(IterOrder(ppe))>>
    ELSE IF Cardinality(ppe) >= 3
    THEN <<"MEDIUM", "Partial PPE detected: " \o Join(IterOrder(ppe))
                       \o ". Review for complete compliance">>
    ELSE IF Cardinality(ppe) = 1
    THEN <<"HIGH", "Insufficient PPE: Only " \o IterOrder(ppe)[1] \o " detected">>
    ELSE <<"HIGH", "Safety concern: Person without visible PPE">>

\* Rule 3, the body of "if has_person:".
PersonRule(labels) ==
    LET ppe == ppe_detected(labels) IN
    IF ~has_helmet(labels)
    THEN <<"CRITICAL", "Safety violation: Person without helmet detected">>
    ELSE IF Cardinality(ppe) >= 4
    THEN <<"LOW", "Full PPE compliance: " \o Join(IterOrder(ppe))>>
    ELSE IF Cardinality(ppe) >= 2
    THEN <<"MEDIUM", "Partial PPE detected: " \o Join(IterOrder(ppe))
                       \o ". Review for complete compliance">>
    ELSE IF Cardinality(ppe) = 1
    THEN <<"HIGH", "Insufficient PPE: Only " \o IterOrder(ppe)[1] \o " detected">>
    ELSE <<"HIGH", "Safety concern: Person without visible PPE">>

\* Variant: the default rule returns a severity outside the four levels.
SceneRule_info_default(dets) ==
    LET n == Cardinality({i \in DOMAIN dets : dets[i].confidence > 75}) IN
    IF n >= 5
    THEN <<"MEDIUM", "Multiple objects detected (" \o ToString(n) \o " items)">>
    ELSE IF Len(dets) >= 3
    THEN <<"MEDIUM", "Multiple objects detected (" \o ToString(Len(dets)) \o " items)">>
    ELSE <<"INFO", "Routine observation: " \o ToString(Len(dets)) \o " object(s) detected">>

\* Rules 4 and 5: complex scenes, then the default.
SceneRule(dets) ==
    LET n == high_conf_count(ConfidenceList(dets)) IN
    IF n >= 5
    THEN <<"MEDIUM", "Multiple objects detected (" \o ToString(n) \o " items)">>
    ELSE IF Len(dets) >= 3
    THEN <<"MEDIUM", "Multiple objects detected (" \o ToString(Len(dets)) \o " items)">>
    ELSE <<"LOW", "Routine observation: " \o ToString(Len(dets)) \o " object(s) detected">>

\* Variant: the person rule is evaluated before the damage rule.
classify_person_first(dets) ==
    IF Len(dets) = 0 THEN <<"LOW", "No objects detected">>
    ELSE
    LET labels == LabelList(dets)
        critical_found == Intersection(CRITICAL_KEYWORDS, labels)
        damage_found == Intersection(HIGH_PRIORITY, labels)
    IN  IF critical_found # {}
        THEN <<"CRITICAL", "Emergency detected: " \o Join(IterOrder(critical_found))>>
        ELSE IF has_person(labels)
        THEN PersonRule(labels)
        ELSE IF damage_found # {}
        THEN <<"HIGH", "Infrastructure damage detected: " \o Join(IterOrder(damage_found))>>
        ELSE SceneRule(dets)

\* SeverityClassifier.classify(detections) -> (severity, reason).
\* avg_confidence (line 24) is computed and never read; the list is non-empty
\* there, so the division cannot fail.
classify(dets) ==
    IF Len(dets) = 0 THEN <<"LOW", "No objects detected">>
    ELSE
    LET labels == LabelList(dets)
        critical_found == Intersection(CRITICAL_KEYWORDS, labels)
        damage_found == Intersection(HIGH_PRIORITY, labels)
    IN  IF critical_found # {}
        THEN <<"CRITICAL", "Emergency detected: " \o Join(IterOrder(critical_found))>>
        ELSE IF damage_found # {}
        THEN <<"HIGH", "Infrastructure damage detected: " \o Join(IterOrder(damage_found))>>
        ELSE IF has_person(labels)
        THEN PersonRule(labels)
        ELSE SceneRule(dets)

----------------------------------------------------------------------------
(* AutoTagger *)

\* AutoTagger.LABEL_TAGS: label -> list of tags.
LABEL_TAGS ==
    [l \in {"person", "helmet", "vest", "gloves", "goggles", "mask", "safety_shoe",
            "pipe", "valve", "crack", "leak", "fire", "car", "truck", "bus",
            "excavator", "crane", "ladder", "dog", "cat", "bird"} |->
     CASE l = "person" -> <<"personnel", "human-present">>
       [] l = "helmet" -> <<"safety-equipment", "ppe", "ppe-compliant", "head-protection">>
       [] l = "vest" -> <<"safety-equipment", "ppe", "ppe-compliant", "high-visibility">>
       [] l = "gloves" -> <<"safety-equipment", "ppe", "ppe-compliant", "hand-protection">>
       [] l = "goggles" -> <<"safety-equipment", "ppe", "ppe-compliant", "eye-protection">>
       [] l = "mask" -> <<"safety-equipment", "ppe", "ppe-compliant", "respiratory-protection">>
       [] l = "safety_shoe" -> <<"safety-equipment", "ppe", "ppe-compliant", "foot-protection">>
       [] l = "pipe" -> <<"infrastructure", "plumbing">>
       [] l = "valve" -> <<"infrastructure", "mechanical">>
       [] l = "crack" -> <<"damage", "structural-issue", "maintenance-required">>
       [] l = "leak" -> <<"damage", "immediate-action", "leak-risk">>
       [] l = "fire" -> <<"emergency", "immediate-action", "critical">>
       [] l = "car" -> <<"vehicle", "transportation">>
       [] l = "truck" -> <<"vehicle", "heavy-equipment">>
       [] l = "bus" -> <<"vehicle", "public-transport">>
       [] l = "excavator" -> <<"construction", "heavy-equipment">>
       [] l = "crane" -> <<"construction", "lifting-equipment">>
       [] l = "ladder" -> <<"construction", "elevated-work">>
       [] l = "dog" -> <<"animal", "pet">>
       [] l = "cat" -> <<"animal", "pet">>
       [] l = "bird" -> <<"animal", "wildlife">>]

Range(seq) == {seq[i] : i \in DOMAIN seq}

\* Every tag the tagger can emit: the table's tags and the literals of
\* generate_tags and _get_combination_tags.
TagVocabulary ==
    UNION {Range(LABEL_TAGS[l]) : l \in DOMAIN LABEL_TAGS}
    \cup {"no-detections", "multiple-workers", "team-present", "high-confidence",
          "complex-scene", "ppe-compliant", "safety-review-needed",
          "structural-damage", "pipe-damage", "leak-risk", "construction-site",
          "elevated-work", "fall-risk", "vehicle-area", "traffic", "emergency",
          "immediate-response-required"}

\* Number of vocabulary tags that compare smaller (str.__lt__) than t.
TagRank == [t \in TagVocabulary |-> Cardinality({u \in TagVocabulary : StrLess(u, t)})]

\* Variant: list(tags) without sorted(): the set's iteration order.
sorted_left_out(S) == IterOrder(S)

\* sorted(list(tags)): the tags in ascending string order.
sorted(S) ==
    [i \in 1..Cardinality(S) |->
        CHOOSE t \in S : Cardinality({u \in S : TagRank[u] < TagRank[t]}) = i - 1]

\* Variant: an empty list for an empty input.
EmptyTags_none == <<>>

\* return ['no-detections']
EmptyTags == <<"no-detections">>

\* Variant: one set shared by all calls, so a call starts from the tags of the
\* call before it.
NewTagSet_shared == {tags[i] : i \in DOMAIN tags}

\* tags: Set[str] = set()   (a fresh set in every call)
NewTagSet == {}

\* AutoTagger._get_combination_tags(labels) -> set of tags.
get_combination_tags(labels) ==
    LET label_set == Range(labels)
        safety ==
            IF "person" \in label_set
            THEN IF {"hard_hat", "helmet", "vest", "safety_vest"} \cap label_set # {}
                 THEN {"ppe-compliant"}
                 ELSE {"safety-review-needed"}
            ELSE {}
        damage ==
            IF "crack" \in label_set
            THEN (IF {"pipe", "wall", "beam", "column"} \cap label_set # {}
                  THEN {"structural-damage"} ELSE {})
                 \cup (IF "pipe" \in label_set THEN {"pipe-damage", "leak-risk"} ELSE {})
            ELSE {}
        construction ==
            IF Cardinality({"excavator", "crane", "truck", "ladder", "hard_hat"}
                           \cap label_set) >= 2
            THEN {"construction-site"} ELSE {}
        elevated ==
            IF "ladder" \in label_set /\ "person" \in label_set
            THEN {"elevated-work", "fall-risk"} ELSE {}
        vehicle ==
            IF Cardinality({"car", "truck", "bus"} \cap label_set) >= 2
            THEN {"vehicle-area", "traffic"} ELSE {}
        emergency ==
            IF {"fire", "smoke", "flood", "gas"} \cap label_set # {}
            THEN {"emergency", "immediate-response-required"} ELSE {}
    IN  safety \cup damage \cup construction \cup elevated \cup vehicle \cup emergency

\* The tag set generate_tags has accumulated before it sorts (steps 1 to 5).
TagSet(dets) ==
    LET labels == LabelList(dets)
        base == UNION {Range(LABEL_TAGS[labels[i]]) :
                         i \in {j \in DOMAIN labels : labels[j] \in DOMAIN LABEL_TAGS}}
        person_count == Cardinality({i \in DOMAIN labels : labels[i] = "person"})
        counted == (IF person_count > 1 THEN {"multiple-workers"} ELSE {})
                   \cup (IF person_count >= 5 THEN {"team-present"} ELSE {})
        high_conf == Cardinality({i \in DOMAIN dets : dets[i].confidence > 85})
        confident == IF high_conf >= 3 THEN {"high-confidence"} ELSE {}
        diverse == IF Cardinality(Range(labels)) >= 5 THEN {"complex-scene"} ELSE {}
    IN  NewTagSet \cup base \cup get_combination_tags(labels)
        \cup counted \cup confident \cup diverse

\* AutoTagger.generate_tags(detections) -> sorted list of tags.
generate_tags(dets) ==
    IF Len(dets) = 0 THEN EmptyTags ELSE sorted(TagSet(dets))

----------------------------------------------------------------------------
(* ObjectDetector *)

\* str.replace(' ', '_')
RECURSIVE ReplaceSpacesFrom(_, _)
ReplaceSpacesFrom(s, i) ==
    IF i > Len(s) THEN ""
    ELSE (IF CharAt(s, i) = " " THEN "_" ELSE CharAt(s, i)) \o ReplaceSpacesFrom(s, i + 1)

\* label = label.lower().replace(' ', '_')
Normalize(s) == ReplaceSpacesFrom(Lower(s), 1)

\* One entry of results.boxes: the class name, the confidence, the corners.
Box(name, conf) == [name |-> name, conf |-> conf, xyxy |-> <<0, 0, 10, 10>>]

\* Pass 1, the general model: the class name is appended as it is.
GeneralPass(boxes) ==
    [i \in DOMAIN boxes |->
        [label |-> boxes[i].name, confidence |-> boxes[i].conf, bbox |-> boxes[i].xyxy]]

\* Passes 2 to 5 (helmet, PPE, crack, fire): the class name is normalized first.
SpecializedPass(boxes) ==
    [i \in DOMAIN boxes |->
        [label |-> Normalize(boxes[i].name), confidence |-> boxes[i].conf,
         bbox |-> boxes[i].xyxy]]

\* ObjectDetector.detect(image_path): the passes of the loaded models, in
\* order, concatenated.  A model whose file was missing at start-up is None
\* and its pass is skipped.
detect(r) ==
    GeneralPass(r.general)
    \o (IF "helmet" \in r.loaded THEN SpecializedPass(r.helmet) ELSE <<>>)
    \o (IF "ppe" \in r.loaded THEN SpecializedPass(r.ppe) ELSE <<>>)
    \o (IF "crack" \in r.loaded THEN SpecializedPass(r.crack) ELSE <<>>)
    \o (IF "fire" \in r.loaded THEN SpecializedPass(r.fire) ELSE <<>>)

\* No model has reported anything (the detector has not been run).
NoResults == [loaded |-> {}, general |-> <<>>, helmet |-> <<>>, ppe |-> <<>>,
              crack |-> <<>>, fire |-> <<>>]

\* Nothing has been written to STORAGE_DIR or OUTPUT_DIR.
NoImages == [original |-> {}, annotated |-> {}]

----------------------------------------------------------------------------
(* Inputs: detection lists that satisfy the Detection contract of main.py   *)
(* (label a string, confidence in [0,1], bbox of four numbers).  Labels are *)
(* the class names the detector emits, which are lowercase.                 *)

Confidences == {75, 90}

Detection(l, c) == [label |-> l, confidence |-> c, bbox |-> <<0, 0, 10, 10>>]

Detections(labels, confs) == {Detection(l, c) : l \in labels, c \in confs}

\* All lists of at most n detections drawn from D.
Lists(D, n) == UNION {[1..k -> D] : k \in 0..n}

DistinctLabels(dets) ==
    \A i, j \in DOMAIN dets : i # j => dets[i].label # dets[j].label

\* One label of every kind the rules distinguish.
GeneralLabels == {"fire", "smoke", "crack", "pothole", "person", "head",
                  "helmet", "vest", "car", "pipe"}

GeneralInputs == Lists(Detections(GeneralLabels, Confidences), MaxLen)

\* Person / PPE scenes: any order, no label twice, long enough for four PPE items.
PPELabels == {"person", "head", "helmet", "vest", "mask", "gloves", "goggles", "safety_shoe"}

PPEInputs == {dets \in Lists(Detections(PPELabels, {90}), MaxPPELen) : DistinctLabels(dets)}

\* Damaged scenes: a person / PPE scene with one crack or pothole detected after
\* it, and short lists mixing damage, emergency and person labels.
DamageInputs ==
    {Append(dets, d) : dets \in PPEInputs, d \in Detections(HIGH_PRIORITY, {90})}
    \cup Lists(Detections({"crack", "pothole", "fire", "smoke", "person"}, Confidences), MaxLen)

\* Scenes without emergency, damage or person labels: long lists of two kinds of
\* object (six are needed to tell the two MEDIUM counts apart), and short lists
\* over more labels.
SceneInputs ==
    Lists(Detections({"car", "truck"}, Confidences), MaxSceneLen)
    \cup Lists(Detections({"car", "truck", "bus", "helmet"}, Confidences), MaxLen)

\* Inputs of repeated calls: the lists of at most two of these detections.
CallDetections == Detections({"fire", "smoke", "person"}, {90})

CallInputs ==
    {<<>>} \cup {<<d>> : d \in CallDetections}
    \cup {<<d, e>> : d \in CallDetections, e \in CallDetections}

\* What the models can report for an image: at most MaxBoxes boxes per pass.
\* The general model is yolov8n (COCO class names, lowercase, some with a
\* space); the class names of the four specialized models are whatever their
\* weight files hold, capitals and spaces included.
Boxes(names) == UNION {[1..k -> {Box(n, 90) : n \in names}] : k \in 0..MaxBoxes}

OptionalModels == {"helmet", "ppe", "crack", "fire"}

RawResults ==
    {r \in [loaded : SUBSET OptionalModels,
            general : Boxes({"person", "traffic light"}),
            helmet : Boxes({"Helmet"}),
            ppe : Boxes({"vest", "Safety Shoe"}),
            crack : Boxes({"crack"}),
            fire : Boxes({"Fire"})] :
        /\ "helmet" \notin r.loaded => r.helmet = <<>>
        /\ "ppe" \notin r.loaded => r.ppe = <<>>
        /\ "crack" \notin r.loaded => r.crack = <<>>
        /\ "fire" \notin r.loaded => r.fire = <<>>}

----------------------------------------------------------------------------
(* The state machine *)

\* A process starts with some hash seed; a request hands in a detection list.
InitWith(inputs) ==
    /\ hashSeed \in HashSeeds
    /\ detections \in inputs
    /\ severity = ""
    /\ reason = ""
    /\ tags = <<>>
    /\ pc = "classify"
    /\ history = <<>>
    /\ raw = NoResults
    /\ analyses_storage = <<>>
    /\ requests = <<>>
    /\ images = NoImages

Init == InitWith(GeneralInputs)

InitPPE == InitWith(PPEInputs)

InitScene == InitWith(SceneInputs)

InitCalls == InitWith(CallInputs)

InitDamage == InitWith(DamageInputs)

\* An image is about to be run through the detector.
InitDetect ==
    /\ hashSeed \in HashSeeds
    /\ raw \in RawResults
    /\ detections = <<>>
    /\ severity = ""
    /\ reason = ""
    /\ tags = <<>>
    /\ pc = "detect"
    /\ history = <<>>
    /\ analyses_storage = <<>>
    /\ requests = <<>>
    /\ images = NoImages

\* detections = detector.detect(str(image_path))
Detect ==
    /\ pc = "detect"
    /\ detections' = detect(raw)
    /\ pc' = "classify"
    /\ UNCHANGED <<hashSeed, severity, reason, tags, history, raw, serverVars>>

\* severity, severity_reason = SeverityClassifier.classify(detections)
Classify ==
    /\ pc = "classify"
    /\ severity' = classify(detections)[1]
    /\ reason' = classify(detections)[2]
    /\ pc' = "tag"
    /\ UNCHANGED <<hashSeed, detections, tags, history, raw, serverVars>>

\* tags = AutoTagger.generate_tags(detections)
GenerateTags ==
    /\ pc = "tag"
    /\ tags' = generate_tags(detections)
    /\ pc' = "done"
    /\ UNCHANGED <<hashSeed, detections, severity, reason, history, raw, serverVars>>

\* The same process serves another request: both functions are called again,
\* on a list that may or may not equal an earlier one.  What the finished call
\* was given and what it returned is kept in history.
NewCall ==
    /\ pc = "done"
    /\ Len(history) + 1 < MaxCalls
    /\ history' = Append(history, [input |-> detections, severity |-> severity,
                                   reason |-> reason, tags |-> tags])
    /\ detections' \in CallInputs
    /\ pc' = "classify"
    /\ UNCHANGED <<hashSeed, severity, reason, tags, raw, serverVars>>

----------------------------------------------------------------------------
(* The HTTP layer of main.py: analyze_image and generate_report.           *)
(*                                                                         *)
(* Both handlers are "async def" without an await, so the event loop runs  *)
(* each from its first line to its response before it starts another.     *)
(* The model is more liberal: a request advances one step at a time and    *)
(* the steps of different requests interleave freely.  What holds here     *)
(* holds for the coarser schedule of the code.                             *)
(* Fields of the response that no rule reads (score, summary, timestamp,   *)
(* longitude, location_accuracy) are left out of the stored entry.         *)

\* The analysis ids uuid4 can draw.
Ids == {"uuid-" \o ToString(i) : i \in 1..MaxRequests}

\* Variant: an id that is not unique (one drawn before can come again).
uuid4_repeating == Ids

\* str(uuid.uuid4()): some id that no request of this process has been given.
uuid4 == Ids \ {requests[r].analysis_id : r \in DOMAIN requests}

\* The uploads a client can send: the content type, the file suffix, whether
\* the detector can read the file and what it finds in it, the latitude form
\* field (0 when absent, which the code treats like 0.0; AnalysisResponse
\* requires -90 <= latitude <= 90; the longitude is sent along with it) and
\* whether the location_accuracy field is sent.
Upload(ct, ext, readable, scene, lat, acc) ==
    [content_type |-> ct, suffix |-> ext, readable |-> readable, scene |-> scene,
     latitude |-> lat, location_accuracy |-> acc]

Uploads ==
    {Upload("text/plain", ".txt", FALSE, <<>>, 0, FALSE),
     Upload("image/jpeg", ".jpg", TRUE, <<>>, 0, FALSE),
     Upload("image/jpeg", ".jpg", TRUE, <<Detection("person", 90)>>, 40, TRUE),
     Upload("image/jpeg", ".jpg", TRUE, <<Detection("person", 90)>>, 40, FALSE),
     Upload("image/bmp", ".bmp", TRUE, <<Detection("fire", 90), Detection("smoke", 75)>>, 40, TRUE),
     Upload("image/png", ".png", FALSE, <<>>, 0, FALSE),
     Upload("image/png", ".png", TRUE, <<Detection("crack", 90)>>, 95, TRUE)}

\* A request as it arrives.
NewRequest(u) ==
    [pc |-> "received", upload |-> u, analysis_id |-> "", detections |-> <<>>,
     response |-> <<>>, status |-> "pending", annotate_failed |-> FALSE,
     report |-> "none"]

\* response = AnalysisResponse(...); response.model_dump()
Response(q) ==
    [analysis_id |-> q.analysis_id,
     detections |-> q.detections,
     latitude |-> q.upload.latitude,
     severity |-> classify(q.detections)[1],
     severity_reason |-> classify(q.detections)[2],
     tags |-> generate_tags(q.detections)]

\* except Exception as e: unlink the image, raise HTTPException(500, ...)
Failed500(q) == [q EXCEPT !.status = "500", !.pc = "done"]

\* Variant: the exception of the annotation step is not caught where it is
\* raised and reaches the handler of the whole analysis.
OnAnnotateError_uncaught(q) ==
    [q EXCEPT !.annotate_failed = TRUE, !.status = "500", !.pc = "done"]

\* except Exception as e: print a warning, go on to "return response".
OnAnnotateError(q) == [q EXCEPT !.annotate_failed = TRUE, !.pc = "return"]

\* analyses_storage[key] = value
Put(store, key, value) ==
    [k \in DOMAIN store \cup {key} |-> IF k = key THEN value ELSE store[k]]

InitServer ==
    /\ hashSeed \in HashSeeds
    /\ detections = <<>>
    /\ severity = ""
    /\ reason = ""
    /\ tags = <<>>
    /\ pc = "idle"
    /\ history = <<>>
    /\ raw = NoResults
    /\ analyses_storage = <<>>
    /\ requests = <<>>
    /\ images = NoImages

coreVars == <<hashSeed, detections, severity, reason, tags, pc, history, raw>>

\* A client posts an upload to /analyze.
Arrive ==
    /\ Len(requests) < MaxRequests
    /\ \E u \in Uploads : requests' = Append(requests, NewRequest(u))
    /\ UNCHANGED <<coreVars, analyses_storage, images>>

\* Lines 78-93: reject a non-image with 400; otherwise draw the id, print the
\* location (formatting a missing location_accuracy raises outside the try
\* block, which the framework answers with 500) and save the upload as
\* STORAGE_DIR/<id><suffix>.
Accept(r) ==
    /\ requests[r].pc = "received"
    /\ IF SubSeq(requests[r].upload.content_type, 1, 6) # "image/"
       THEN /\ requests' = [requests EXCEPT ![r].status = "400", ![r].pc = "done"]
            /\ UNCHANGED images
       ELSE \E id \in uuid4 :
            IF requests[r].upload.latitude # 0 /\ ~requests[r].upload.location_accuracy
            THEN /\ requests' = [requests EXCEPT
                                     ![r] = Failed500([@ EXCEPT !.analysis_id = id])]
                 /\ UNCHANGED images
            ELSE /\ requests' = [requests EXCEPT ![r].analysis_id = id, ![r].pc = "detect"]
                 /\ images' = [images EXCEPT !.original = @ \cup {id}]
    /\ UNCHANGED <<coreVars, analyses_storage>>

\* Lines 95-98: detector.detect; an unreadable file makes it raise.
RunDetector(r) ==
    /\ requests[r].pc = "detect"
    /\ IF requests[r].upload.readable
       THEN /\ requests' = [requests EXCEPT ![r].detections = requests[r].upload.scene,
                                             ![r].pc = "build"]
            /\ UNCHANGED images
       ELSE /\ requests' = [requests EXCEPT ![r] = Failed500(@)]
            /\ images' = [images EXCEPT !.original = @ \ {requests[r].analysis_id}]
    /\ UNCHANGED <<coreVars, analyses_storage>>

\* Lines 100-134: score, summary, classify, generate_tags, AnalysisResponse;
\* the response model raises on a latitude outside [-90, 90].
BuildResponse(r) ==
    /\ requests[r].pc = "build"
    /\ IF requests[r].upload.latitude >= -90 /\ requests[r].upload.latitude <= 90
       THEN /\ requests' = [requests EXCEPT ![r].response = Response(requests[r]),
                                             ![r].pc = "store"]
            /\ UNCHANGED images
       ELSE /\ requests' = [requests EXCEPT ![r] = Failed500(@)]
            /\ images' = [images EXCEPT !.original = @ \ {requests[r].analysis_id}]
    /\ UNCHANGED <<coreVars, analyses_storage>>

\* Line 136: analyses_storage[analysis_id] = response.model_dump()
Store(r) ==
    /\ requests[r].pc = "store"
    /\ analyses_storage' = Put(analyses_storage, requests[r].analysis_id, requests[r].response)
    /\ requests' = [requests EXCEPT ![r].pc = "annotate"]
    /\ UNCHANGED <<coreVars, images>>

\* Lines 138-142: draw_detections writes the annotated image, or raises (the
\* image cannot be read back, the file cannot be written) and is caught.
Annotate(r) ==
    /\ requests[r].pc = "annotate"
    /\ \E drawn \in BOOLEAN :
         IF drawn
         THEN /\ images' = [images EXCEPT !.annotated = @ \cup {requests[r].analysis_id}]
              /\ requests' = [requests EXCEPT ![r].pc = "return"]
         ELSE /\ requests' = [requests EXCEPT ![r] = OnAnnotateError(@)]
              /\ UNCHANGED images
    /\ UNCHANGED <<coreVars, analyses_storage>>

\* Line 144: return response; the client now holds the analysis_id.
Return(r) ==
    /\ requests[r].pc = "return"
    /\ requests' = [requests EXCEPT ![r].status = "200", ![r].pc = "done"]
    /\ UNCHANGED <<coreVars, analyses_storage, images>>

\* generate_report(analysis_id), asked for by a client with an id it received.
Report(r) ==
    /\ requests[r].status = "200"
    /\ requests[r].report = "none"
    /\ \E rendered \in BOOLEAN :
         requests' = [requests EXCEPT ![r].report =
            IF requests[r].analysis_id \notin DOMAIN analyses_storage
            THEN "404 Analysis not found"
            ELSE IF requests[r].analysis_id \notin images.original
                    \/ requests[r].upload.suffix \notin {".jpg", ".jpeg", ".png", ".webp", ".gif"}
            THEN "404 Original image not found"
            ELSE IF requests[r].analysis_id \notin images.annotated
            THEN "404 Annotated image not found"
            ELSE IF rendered THEN "200" ELSE "500 PDF generation failed"]
    /\ UNCHANGED <<coreVars, analyses_storage, images>>

NextServer ==
    \/ Arrive
    \/ \E r \in DOMAIN requests : Accept(r)
    \/ \E r \in DOMAIN requests : RunDetector(r)
    \/ \E r \in DOMAIN requests : BuildResponse(r)
    \/ \E r \in DOMAIN requests : Store(r)
    \/ \E r \in DOMAIN requests : Annotate(r)
    \/ \E r \in DOMAIN requests : Return(r)
    \/ \E r \in DOMAIN requests : Report(r)

SpecServer == InitServer /\ [][NextServer]_vars

\* The shape of the state: what analyze_image holds around the two calls.
TypeOK ==
    /\ hashSeed \in HashSeeds
    /\ detections \in Seq([label : STRING, confidence : 0..100, bbox : Seq(Int)])
    /\ severity \in STRING
    /\ reason \in STRING
    /\ tags \in Seq(STRING)
    /\ pc \in {"idle", "detect", "classify", "tag", "done"}
    /\ history \in Seq([input : Seq([label : STRING, confidence : 0..100, bbox : Seq(Int)]),
                        severity : STRING, reason : STRING, tags : Seq(STRING)])
    /\ DOMAIN raw = {"loaded", "general", "helmet", "ppe", "crack", "fire"}
    /\ DOMAIN analyses_storage \subseteq Ids
    /\ DOMAIN requests = 1..Len(requests)
    /\ \A r \in DOMAIN requests :
         /\ requests[r].upload \in Uploads
         /\ requests[r].analysis_id \in Ids \cup {""}
         /\ requests[r].status \in {"pending", "200", "400", "500"}
         /\ requests[r].pc \in {"received", "detect", "build", "store", "annotate",
                                 "return", "done"}
    /\ images.original \subseteq Ids
    /\ images.annotated \subseteq images.original

Next == Classify \/ GenerateTags

NextCalls == Classify \/ GenerateTags \/ NewCall

NextDetect == Detect \/ Classify \/ GenerateTags

Spec == Init /\ [][Next]_vars

SpecPPE == InitPPE /\ [][Next]_vars

SpecScene == InitScene /\ [][Next]_vars

SpecCalls == InitCalls /\ [][NextCalls]_vars

SpecDamage == InitDamage /\ [][Next]_vars

SpecDetect == InitDetect /\ [][NextDetect]_vars

----------------------------------------------------------------------------
(* Vocabulary of the properties: what the list holds, what was returned.    *)
(* These read the input and the outputs directly and use none of the       *)
(* classifier's or the tagger's own operators.                              *)

HasLabel(l) == \E i \in DOMAIN detections : detections[i].label = l

Classified == pc \in {"tag", "done"}

Tagged == pc = "done"

StartsWith(s, prefix) == Len(s) >= Len(prefix) /\ SubSeq(s, 1, Len(prefix)) = prefix

Contains(s, part) ==
    \E i \in 1..(Len(s) - Len(part) + 1) : SubSeq(s, i, i + Len(part) - 1) = part

NoEmergency == ~HasLabel("fire") /\ ~HasLabel("smoke")

NoDamage == ~HasLabel("crack") /\ ~HasLabel("pothole")

PersonSeen == HasLabel("person") \/ HasLabel("head")

OtherPPE == {"vest", "mask", "gloves", "goggles", "safety_shoe"}

----------------------------------------------------------------------------
(* Properties *)

\* C1: whatever the detection list, the severity classify returns is one of
\* LOW, MEDIUM, HIGH, CRITICAL.
C1_SeverityInEnum ==
    Classified => severity \in {"LOW", "MEDIUM", "HIGH", "CRITICAL"}

C1_Witness ==
    /\ Classified
    /\ Len(detections) = 3
    /\ severity = "MEDIUM"
    /\ NoEmergency /\ NoDamage /\ ~PersonSeen

\* C2: a list with a detection labelled fire or smoke is classified CRITICAL,
\* whatever else it holds, and the reason is the emergency reason naming
\* exactly the emergency labels that occur in the list.
C2_EmergencyIsCritical ==
    (Classified /\ ~NoEmergency) =>
        /\ severity = "CRITICAL"
        /\ StartsWith(reason, "Emergency detected: ")
        /\ \A l \in {"fire", "smoke"} : Contains(reason, l) <=> HasLabel(l)

C2_Witness ==
    /\ Classified
    /\ HasLabel("fire") /\ HasLabel("crack") /\ HasLabel("person")
    /\ severity = "CRITICAL"

\* C4: a list with a person or head, no helmet, and no fire, smoke, crack or
\* pothole is classified (CRITICAL, "Safety violation: Person without helmet
\* detected"), whatever other PPE labels it holds.
C4_NoHelmetIsCritical ==
    (Classified /\ PersonSeen /\ ~HasLabel("helmet") /\ NoEmergency /\ NoDamage) =>
        /\ severity = "CRITICAL"
        /\ reason = "Safety violation: Person without helmet detected"

C4_Witness ==
    /\ Classified
    /\ HasLabel("head") /\ ~HasLabel("person") /\ ~HasLabel("helmet")
    /\ \A l \in OtherPPE \ {"safety_shoe"} : HasLabel(l)
    /\ severity = "CRITICAL"

\* C3: first match wins.  A list with crack or pothole and neither fire nor
\* smoke is classified HIGH with the infrastructure-damage reason, also when it
\* holds a person without helmet or a person with helmet and full PPE.
C3_DamageBeforePerson ==
    (Classified /\ ~NoDamage /\ NoEmergency) =>
        /\ severity = "HIGH"
        /\ StartsWith(reason, "Infrastructure damage detected: ")
        /\ \A l \in {"crack", "pothole"} : Contains(reason, l) <=> HasLabel(l)

\* A damaged scene with a person wearing helmet and three more PPE items
\* (LOW on its own) ...
C3_Witness ==
    /\ Classified
    /\ HasLabel("crack") /\ HasLabel("person") /\ HasLabel("helmet")
    /\ Cardinality({l \in OtherPPE : HasLabel(l)}) >= 3
    /\ severity = "HIGH"

\* C5 as claimed: with person or head and helmet present (no fire, smoke,
\* crack, pothole), the count compared with the thresholds is the number of
\* distinct labels from {vest, mask, gloves, goggles, safety_shoe}, the helmet
\* not counted: 4 or more LOW, 2 or 3 MEDIUM, exactly 1 HIGH "Only <item>".
C5_HelmetNotCounted ==
    (Classified /\ PersonSeen /\ HasLabel("helmet") /\ NoEmergency /\ NoDamage) =>
        LET others == {l \in OtherPPE : HasLabel(l)}
            n == Cardinality(others)
        IN  /\ n >= 4 => severity = "LOW" /\ StartsWith(reason, "Full PPE compliance")
            /\ n \in {2, 3} => severity = "MEDIUM" /\ StartsWith(reason, "Partial PPE detected")
            /\ n = 1 => /\ severity = "HIGH"
                        /\ \E l \in others : reason = "Insufficient PPE: Only " \o l \o " detected"

\* C5 as amended: the count is the number of distinct labels present from
\* {helmet, vest, mask, gloves, goggles, safety_shoe}, the helmet included:
\* 4 or more LOW "Full PPE compliance", 2 or 3 MEDIUM "Partial PPE detected",
\* exactly 1 (the helmet alone) HIGH "Insufficient PPE: Only helmet detected".
C5_HelmetCounted ==
    (Classified /\ PersonSeen /\ HasLabel("helmet") /\ NoEmergency /\ NoDamage) =>
        LET present == {l \in OtherPPE \cup {"helmet"} : HasLabel(l)}
            n == Cardinality(present)
        IN  /\ n >= 4 => /\ severity = "LOW"
                         /\ StartsWith(reason, "Full PPE compliance: ")
                         /\ \A l \in present : Contains(reason, l)
            /\ n \in {2, 3} => /\ severity = "MEDIUM"
                               /\ StartsWith(reason, "Partial PPE detected: ")
                               /\ \A l \in present : Contains(reason, l)
            /\ n = 1 => /\ severity = "HIGH"
                        /\ reason = "Insufficient PPE: Only helmet detected"

\* Helmet and exactly three other items: four counted, LOW.
C5_Witness ==
    /\ Classified
    /\ PersonSeen /\ HasLabel("helmet")
    /\ Cardinality({l \in OtherPPE : HasLabel(l)}) = 3
    /\ severity = "LOW"

\* C6: a list whose labels are exactly person, helmet and one other PPE item,
\* in any order and with any confidences, is classified MEDIUM.
C6_HelmetAndOneItem ==
    (Classified /\ \E x \in OtherPPE :
        {detections[i].label : i \in DOMAIN detections} = {"person", "helmet", x}) =>
        severity = "MEDIUM"

C6_Witness ==
    /\ Classified
    /\ Len(detections) = 3
    /\ detections[1].label = "vest" /\ detections[1].confidence = 75
    /\ detections[2].label = "person" /\ detections[2].confidence = 90
    /\ detections[3].label = "helmet"
    /\ severity = "MEDIUM"

\* Number of detections with confidence above 0.75, counted on the input.
HighCount == Cardinality({i \in DOMAIN detections : detections[i].confidence > 75})

PlainScene == Len(detections) > 0 /\ NoEmergency /\ NoDamage /\ ~PersonSeen

\* C7 as claimed: a non-empty list with no label in {fire, smoke, crack,
\* pothole, person, head} is MEDIUM "Multiple objects detected (<count> items)"
\* if at least 5 detections have confidence > 0.75 or there are at least 3
\* detections, and otherwise LOW "Routine observation: <count> object(s)
\* detected", <count> being the total number of detections.
C7_CountIsTotal ==
    (Classified /\ PlainScene) =>
        IF HighCount >= 5 \/ Len(detections) >= 3
        THEN /\ severity = "MEDIUM"
             /\ reason = "Multiple objects detected (" \o ToString(Len(detections)) \o " items)"
        ELSE /\ severity = "LOW"
             /\ reason = "Routine observation: " \o ToString(Len(detections))
                          \o " object(s) detected"

\* C7 as amended: as claimed, except that in the MEDIUM reason <count> is the
\* number of detections with confidence > 0.75 when that number is at least 5,
\* and the total number of detections only otherwise.
C7_CountBySource ==
    (Classified /\ PlainScene) =>
        IF HighCount >= 5 \/ Len(detections) >= 3
        THEN /\ severity = "MEDIUM"
             /\ reason = "Multiple objects detected ("
                          \o ToString(IF HighCount >= 5 THEN HighCount ELSE Len(detections))
                          \o " items)"
        ELSE /\ severity = "LOW"
             /\ reason = "Routine observation: " \o ToString(Len(detections))
                          \o " object(s) detected"

\* Five confident detections among six.
C7_Witness ==
    /\ Classified /\ PlainScene
    /\ Len(detections) = 6 /\ HighCount = 5
    /\ severity = "MEDIUM"

\* C8: the empty list is no error: classify returns (LOW, "No objects
\* detected") and generate_tags returns the one-element list ['no-detections'].
C8_EmptyList ==
    (detections = <<>>) =>
        /\ Classified => severity = "LOW" /\ reason = "No objects detected"
        /\ Tagged => tags = <<"no-detections">>

C8_Witness == detections = <<>> /\ Tagged /\ Len(tags) = 1

\* C9: the list generate_tags returns is in strictly ascending lexicographic
\* (code point) order, hence without duplicates.
C9_SortedNoDuplicates ==
    Tagged => \A i \in 1..(Len(tags) - 1) : StrLess(tags[i], tags[i + 1])

\* helmet and vest both map to 'ppe', and the person + helmet combination rule
\* adds 'ppe-compliant', which both label mappings added already.
C9_Witness ==
    /\ Tagged
    /\ HasLabel("person") /\ HasLabel("helmet") /\ HasLabel("vest")
    /\ \E i \in DOMAIN tags : tags[i] = "ppe"
    /\ \E i \in DOMAIN tags : tags[i] = "ppe-compliant"

HasTag(t) == \E i \in DOMAIN tags : tags[i] = t

\* C11: for a list with a person and no helmet-class item, the tags include
\* both 'safety-violation' and 'helmet-missing'.
C11_HelmetMissingTags ==
    (Tagged /\ HasLabel("person")
        /\ \A l \in {"helmet", "hard_hat"} : ~HasLabel(l)) =>
        HasTag("safety-violation") /\ HasTag("helmet-missing")

\* C12: for a list with a person and a helmet, the tags include
\* 'full-ppe-compliant' when at least 3 distinct PPE items are present and
\* 'partial-ppe' when 1 or 2 are (person, helmet, vest: 'partial-ppe').
C12_PPELevelTags ==
    (Tagged /\ HasLabel("person") /\ HasLabel("helmet")) =>
        LET n == Cardinality({l \in OtherPPE \cup {"helmet"} : HasLabel(l)})
        IN  /\ n >= 3 => HasTag("full-ppe-compliant")
            /\ n \in {1, 2} => HasTag("partial-ppe")

\* C13: the tags include 'immediate-action-required' whenever fire or smoke is
\* among the labels and 'inspection-required' whenever crack or pothole is,
\* whatever other labels are present.
C13_EmergencyAndInspectionTags ==
    Tagged =>
        /\ ~NoEmergency => HasTag("immediate-action-required")
        /\ ~NoDamage => HasTag("inspection-required")

\* C16: classify never returns the reason "Safety concern: Person without
\* visible PPE": the branch that counts PPE is entered only with a helmet in
\* the list, and the helmet is itself one of the counted items.
C16_NoVisiblePPEUnreachable ==
    Classified => reason # "Safety concern: Person without visible PPE"

\* The nearest case: a person and a helmet, and no other PPE item.
C16_Witness ==
    /\ Classified
    /\ PersonSeen /\ HasLabel("helmet")
    /\ \A l \in OtherPPE : ~HasLabel(l)
    /\ severity = "HIGH"
    /\ reason = "Insufficient PPE: Only helmet detected"

\* A normalized label: no capital letter and no space.
NormalizedLabel(s) ==
    \A i \in 1..Len(s) :
        /\ CharAt(s, i) # " "
        /\ ~(CodeOrder[CharAt(s, i)] >= 3 /\ CodeOrder[CharAt(s, i)] <= 28)

\* C15: every detection detect returns, from whichever model pass, carries a
\* normalized label: all lowercase, every space replaced by an underscore.
C15_LabelsNormalized ==
    (pc # "detect") => \A i \in DOMAIN detections : NormalizedLabel(detections[i].label)

----------------------------------------------------------------------------
\* Vocabulary of the HTTP layer.

\* Request r has executed the write of line 136.
Stored(r) ==
    \/ requests[r].pc \in {"annotate", "return"}
    \/ requests[r].pc = "done" /\ requests[r].status = "200"

\* Request r was answered with an error status.
Rejected(r) == requests[r].status \in {"400", "500"}

\* The entry request r wrote is in the store, untouched.
EntryIntact(r) ==
    /\ requests[r].analysis_id \in DOMAIN analyses_storage
    /\ analyses_storage[requests[r].analysis_id] = requests[r].response
    /\ requests[r].response.analysis_id = requests[r].analysis_id
    /\ requests[r].response.detections = requests[r].upload.scene

\* C14: requests that interleave never corrupt the store: every request that
\* reached the write has exactly one entry, under its own id and with its own
\* content; an entry once written is never overwritten, altered or removed;
\* the entry is in the store before the id is returned, so a report asked for
\* with a received id never finds the analysis missing.
C14_StoreNotCorrupted ==
    /\ [](/\ \A r \in DOMAIN requests : Stored(r) => EntryIntact(r)
          /\ Cardinality(DOMAIN analyses_storage)
               = Cardinality({r \in DOMAIN requests : Stored(r)})
          /\ \A r \in DOMAIN requests :
               requests[r].status = "200" => requests[r].analysis_id \in DOMAIN analyses_storage
          /\ \A r \in DOMAIN requests : requests[r].report # "404 Analysis not found")
    /\ [][\A id \in DOMAIN analyses_storage :
            id \in DOMAIN analyses_storage' /\ analyses_storage'[id] = analyses_storage[id]]_vars

\* Two requests whose steps interleaved have both written, and a report for
\* one of them has been produced.
C14_Witness ==
    /\ Len(requests) = MaxRequests
    /\ \A r \in DOMAIN requests : Stored(r)
    /\ Cardinality(DOMAIN analyses_storage) = MaxRequests
    /\ \E r \in DOMAIN requests : requests[r].pc = "annotate"
    /\ \E r \in DOMAIN requests : requests[r].report = "200"

\* C17: a request answered 400 or 500 leaves the store as it was (the step
\* that fails does not write, and the failed request has no entry); a failure
\* of the annotation step alone, after the write, neither fails the request
\* nor removes its entry.
C17_FailureLeavesStore ==
    /\ [](/\ \A r \in DOMAIN requests :
               Rejected(r) => requests[r].analysis_id \notin DOMAIN analyses_storage
          /\ \A r \in DOMAIN requests :
               requests[r].annotate_failed => ~Rejected(r) /\ EntryIntact(r)
          /\ \A r \in DOMAIN requests :
               requests[r].annotate_failed /\ requests[r].pc = "done"
                   => requests[r].status = "200")
    /\ [][(\E r \in DOMAIN requests :
              \/ ~Rejected(r) /\ requests'[r].status \in {"400", "500"}
              \/ ~requests[r].annotate_failed /\ requests'[r].annotate_failed)
          => analyses_storage' = analyses_storage]_vars

\* One request was answered 200 although its annotation failed, another was
\* answered 500, a third one 400 or still running, and the store holds the
\* entry of the first only.
C17_Witness ==
    /\ \E r \in DOMAIN requests :
         /\ requests[r].annotate_failed
         /\ requests[r].status = "200"
         /\ requests[r].report = "404 Annotated image not found"
    /\ \E r \in DOMAIN requests : requests[r].status = "500" /\ requests[r].upload.readable
    /\ Cardinality(DOMAIN analyses_storage) = MaxRequests - Cardinality({r \in DOMAIN requests : Rejected(r)})

====
